---- MODULE Spec2Model ----
(***************************************************************************)
(* Model of GCEWindowsAgent/main.go: the metadata watch loop started by    *)
(* run(), the per-cycle fan-out of runUpdate() over the four managers, and *)
(* the cancellation of the agent's context.                                *)
(*                                                                         *)
(* The watch loop is one goroutine; its position is pc.  Every manager     *)
(* goroutine spawned by runUpdate has its own position in task.  The       *)
(* metadata server, the config file and the managers' set() are the        *)
(* environment: their outcomes are drawn from small sets.                  *)
(***************************************************************************)
EXTENDS Naturals, FiniteSets, Sequences, TLC

\* ---------------------------------------------------------------- bounds
\* populated snapshots the metadata server can return are 1..MaxSnap
MaxSnap == 2
\* webError is counted exactly up to MaxFail; larger values are merged into
\* MaxFail (the loop only ever tests webError == 1)
MaxFail == 3

Min(a, b) == IF a < b THEN a ELSE b

\* at most one element of S
OneOf(S) == IF S = {} THEN {} ELSE {CHOOSE x \in S : TRUE}

\* ------------------------------------------------------------ data model
\* the managers ranged over by runUpdate
Domains == {"addresses", "accounts", "wsfc", "diagnostics"}

\* managers constructed with both oldMetadata and newMetadata; the wsfc
\* manager is built from newMetadata and the config only
EqualityBased == {"addresses", "accounts", "diagnostics"}

\* var oldMetadata metadataJSON: the zero value
ZeroMetadataMut == MaxSnap
ZeroMetadata == 0

Snapshots == 0..MaxSnap

\* the part of a snapshot a manager looks at: network interfaces change with
\* every snapshot, windows keys with every second one, the diagnostics
\* attribute is either absent or present
Slice(s, d) ==
    CASE d = "addresses"   -> s
      [] d = "accounts"    -> (s + 1) \div 2
      [] d = "diagnostics" -> IF s = 0 THEN 0 ELSE 1
      [] OTHER             -> s

Populated(s) == \A d \in Domains : Slice(s, d) # 0

\* error classes told apart by the type assertions on the fetch error
ErrClasses == {"dns", "net", "other"}

\* states of the file at configPath: missing, failing to be read or parsed
\* ("unreadable"), or parsed into a config disabling some managers
ConfigFiles ==
    [kind : {"notexist", "unreadable"}, disabled : {{}}]
        \cup [kind : {"ok"}, disabled : SUBSET Domains]

\* parseConfig: (nil, err) unless the file is read and parsed
parseConfig(f) ==
    IF f.kind = "ok" THEN [nil |-> FALSE, disabled |-> f.disabled, err |-> "nil"]
    ELSE [nil |-> TRUE, disabled |-> {}, err |-> f.kind]

\* os.IsNotExist
IsNotExistMut(err) == FALSE
IsNotExist(err) == err = "notexist"

\* the head of runUpdate: log any error but non-existence, fall back to the
\* empty config
LoadConfig(f) ==
    LET r == parseConfig(f) IN
    [file     |-> f.kind,
     logged   |-> (r.err # "nil" /\ ~IsNotExist(r.err)),
     disabled |-> IF r.nil THEN {} ELSE r.disabled]

NoConfig == [file |-> "none", logged |-> FALSE, disabled |-> {}]

\* mgr.disabled(): decided by the override config
disabled(d, c) == d \in c.disabled

\* mgr.diff(): the managers holding both snapshots compare their slice of
\* them; wsfc compares newMetadata with the state of its own agent
diff(d, old, new) ==
    IF d \in EqualityBased THEN {Slice(old, d) # Slice(new, d)} ELSE BOOLEAN

\* if mgr.disabled() || !mgr.diff() { return }
SkipMut(dis, df) == dis /\ ~df
Skip(dis, df) == dis \/ ~df

\* whether diff() is evaluated at all: || short-circuits
DiffEvaluatedMut(dis) == TRUE
DiffEvaluated(dis) == ~dis

\* if webError == 1
ShouldLogMut(w) == w >= 1
ShouldLog(w) == w = 1

\* the hint that goes with a *url.Error wrapping a DNSError or an OpError
HintsMut(e) == IF e = "dns" THEN {"dns_hint"} ELSE {"net_hint"}
Hints(e) ==
    CASE e = "dns" -> {"dns_hint"}
      [] e = "net" -> {"net_hint"}
      [] OTHER     -> {}

\* what one failed fetch writes to the log
LogEntries(w, e) == IF ShouldLog(w) THEN Hints(e) \cup {"raw"} ELSE {}

\* webError++
IncWebError(w) == Min(w + 1, MaxFail)

FreshMgr == [disabledCalls |-> 0, disabledRet |-> FALSE,
             diffCalls |-> 0, diffRet |-> FALSE,
             setCalls |-> 0, setDone |-> FALSE, setErr |-> FALSE]

\* ----------------------------------------------------------------- state
VARIABLES
    pc,            \* watch loop: "fetch", "sleep", "select", "runUpdate", "stopped"
    runPc,         \* run(): "waiting" on <-ctx.Done(), or "returned"
    ctxDone,       \* ctx has been cancelled
    oldMetadata,   \* the loop's oldMetadata
    newMetadata,   \* the loop's newMetadata (0 while there is none)
    webError,      \* the loop's webError
    updNew,        \* runUpdate's newMetadata argument
    cfg,           \* runUpdate's cfg
    task,          \* per manager goroutine: "none", "spawned", "set"
    mgr,           \* per manager: calls made and values returned this cycle
    lastErr,       \* class of the error the loop is backing off from
    lastLog,       \* entries logged by the latest failed fetch
    streak,        \* failed fetches since the last successful one
    streakLogged,  \* the current streak has logged its error
    ended,         \* length of the streak the latest success ended
    endedLogged,   \* that streak had logged its error
    prevNew,       \* newMetadata of the preceding dispatch, 0 if none
    prevFailed,    \* a manager whose set() failed in the preceding dispatch,
                   \* until it runs again or a different snapshot is dispatched
    cycle          \* 0 until the first dispatch has completed, 1 from then on

vars == <<pc, runPc, ctxDone, oldMetadata, newMetadata, webError, updNew, cfg,
          task, mgr, lastErr, lastLog, streak, streakLogged, ended, endedLogged,
          prevNew, prevFailed, cycle>>

loopVars  == <<oldMetadata, newMetadata, webError>>
cycleVars == <<updNew, cfg, task, mgr>>
failVars  == <<lastErr, lastLog, streak, streakLogged, ended, endedLogged>>
histVars  == <<prevNew, prevFailed, cycle>>

Init ==
    /\ pc = "fetch"
    /\ runPc = "waiting"
    /\ ctxDone = FALSE
    /\ oldMetadata = ZeroMetadata
    /\ newMetadata = 0
    /\ webError = 0
    /\ updNew = 0
    /\ cfg = NoConfig
    /\ task = [d \in Domains |-> "none"]
    /\ mgr = [d \in Domains |-> FreshMgr]
    /\ lastErr = "none"
    /\ lastLog = {}
    /\ streak = 0
    /\ streakLogged = FALSE
    /\ ended = 0
    /\ endedLogged = FALSE
    /\ prevNew = 0
    /\ prevFailed = {}
    /\ cycle = 0

\* ------------------------------------------------------- lifecycle shell
\* the service manager (or nobody) cancels ctx
Cancel ==
    /\ ~ctxDone
    /\ ctxDone' = TRUE
    /\ UNCHANGED <<pc, runPc, loopVars, cycleVars, failVars, histVars>>

\* <-ctx.Done(); logger.Info("GCE Agent Stopped")
RunReturn ==
    /\ runPc = "waiting"
    /\ ctxDone
    /\ runPc' = "returned"
    /\ UNCHANGED <<pc, ctxDone, loopVars, cycleVars, failVars, histVars>>

\* ------------------------------------------------------------ watch loop
\* where the loop goes after a failed fetch that found webError at w:
\* time.Sleep, then continue
AfterFailureMut(w) == IF w >= 2 THEN "stopped" ELSE "sleep"
AfterFailure(w) == "sleep"

\* watchMetadata returns an error of class e
WatchMetadataErr(e) ==
    /\ pc = "fetch"
    /\ lastErr' = e
    /\ lastLog' = LogEntries(webError, e)
    /\ webError' = IncWebError(webError)
    /\ streak' = Min(streak + 1, MaxFail)
    /\ streakLogged' = (streakLogged \/ "raw" \in lastLog')
    /\ pc' = AfterFailure(webError)
    /\ UNCHANGED <<runPc, ctxDone, oldMetadata, newMetadata, cycleVars,
                   ended, endedLogged, histVars>>

\* time.Sleep(5 * time.Second); continue
Backoff ==
    /\ pc = "sleep"
    /\ pc' = "fetch"
    /\ lastErr' = "none"
    /\ lastLog' = {}
    /\ UNCHANGED <<runPc, ctxDone, loopVars, cycleVars, streak, streakLogged,
                   ended, endedLogged, histVars>>

\* watchMetadata returns snapshot s
WatchMetadataOK(s) ==
    /\ pc = "fetch"
    /\ newMetadata' = s
    /\ pc' = "select"
    /\ ended' = streak
    /\ endedLogged' = streakLogged
    /\ streak' = 0
    /\ streakLogged' = FALSE
    /\ UNCHANGED <<runPc, ctxDone, oldMetadata, webError, cycleVars, lastErr,
                   lastLog, histVars>>

\* whether the select finds ctx.Done() ready
CancelSeenMut == FALSE
CancelSeen == ctxDone

\* case <-ctx.Done(): return
SelectDoneMut ==
    /\ pc = "select"
    /\ pc' = "stopped"
    /\ UNCHANGED <<runPc, ctxDone, loopVars, cycleVars, failVars, histVars>>
SelectDone ==
    /\ pc = "select"
    /\ CancelSeen
    /\ pc' = "stopped"
    /\ UNCHANGED <<runPc, ctxDone, loopVars, cycleVars, failVars, histVars>>

\* default: runUpdate(newMetadata, &oldMetadata) up to wg.Wait(): the config
\* file is found in state f, the four managers are built and spawned
SelectDefault(f) ==
    /\ pc = "select"
    /\ ~CancelSeen
    /\ cfg' = LoadConfig(f)
    /\ updNew' = newMetadata
    /\ task' = [d \in Domains |-> "spawned"]
    /\ mgr' = [d \in Domains |-> FreshMgr]
    /\ pc' = "runUpdate"
    /\ prevFailed' = IF newMetadata = prevNew THEN prevFailed ELSE {}
    /\ UNCHANGED <<runPc, ctxDone, loopVars, failVars, prevNew, cycle>>

\* -------------------------------------------------------------- managers
\* the goroutine of manager d up to its call of set(): disabled(), then
\* diff() read through the oldMetadata pointer
MgrCheck(d, df) ==
    /\ task[d] = "spawned"
    /\ LET dis  == disabled(d, cfg)
           eval == DiffEvaluated(dis)
       IN /\ df \in (IF eval THEN diff(d, oldMetadata, updNew) ELSE {FALSE})
          /\ IF Skip(dis, df)
             THEN /\ task' = [task EXCEPT ![d] = "none"]
                  /\ mgr' = [mgr EXCEPT ![d].disabledCalls = @ + 1,
                                        ![d].disabledRet = dis,
                                        ![d].diffCalls = IF eval THEN @ + 1 ELSE @,
                                        ![d].diffRet = df]
             ELSE /\ task' = [task EXCEPT ![d] = "set"]
                  /\ mgr' = [mgr EXCEPT ![d].disabledCalls = @ + 1,
                                        ![d].disabledRet = dis,
                                        ![d].diffCalls = IF eval THEN @ + 1 ELSE @,
                                        ![d].diffRet = df,
                                        ![d].setCalls = @ + 1]
    /\ prevFailed' = prevFailed \ {d}
    /\ UNCHANGED <<pc, runPc, ctxDone, loopVars, updNew, cfg, failVars, prevNew,
                   cycle>>

\* the goroutines left running once d's set() has returned
TasksAfterSetMut(d, err) ==
    IF err THEN [x \in Domains |-> "none"] ELSE [task EXCEPT ![d] = "none"]
TasksAfterSet(d, err) == [task EXCEPT ![d] = "none"]

\* set() of manager d returns, with an error or not; the error is logged and
\* the goroutine ends
MgrSetReturn(d, err) ==
    /\ task[d] = "set"
    /\ task' = TasksAfterSet(d, err)
    /\ mgr' = [mgr EXCEPT ![d].setDone = TRUE, ![d].setErr = err]
    /\ UNCHANGED <<pc, runPc, ctxDone, loopVars, updNew, cfg, failVars, histVars>>

\* wg.Wait() lets go
JoinedMut == \E d \in Domains : task[d] = "none"
JoinedCountMut == Cardinality({d \in Domains : task[d] # "none"}) <= 1
JoinedNoSetMut == \A d \in Domains : task[d] # "spawned"
Joined == \A d \in Domains : task[d] = "none"

\* oldMetadata = *newMetadata
AdvanceMut(old, new) == old
AdvanceAfterFailuresMut(old, new) == IF webError > 0 THEN old ELSE new
AdvanceIfCleanMut(old, new) ==
    IF \E a \in Domains : mgr[a].setErr THEN old ELSE new
Advance(old, new) == new

\* webError = 0
ResetWebErrorMut(w) == w
ResetWebError(w) == 0

\* runUpdate returns; the loop advances the snapshot pair and starts over
WaitReturn ==
    /\ pc = "runUpdate"
    /\ Joined
    /\ oldMetadata' = Advance(oldMetadata, newMetadata)
    /\ webError' = ResetWebError(webError)
    /\ newMetadata' = 0
    /\ updNew' = 0
    /\ cfg' = NoConfig
    /\ mgr' = [d \in Domains |-> FreshMgr]
    /\ prevNew' = updNew
    /\ prevFailed' = OneOf({d \in Domains : mgr[d].setErr})
    /\ cycle' = 1
    /\ ended' = 0
    /\ endedLogged' = FALSE
    /\ pc' = "fetch"
    /\ UNCHANGED <<runPc, ctxDone, task, lastErr, lastLog, streak,
                   streakLogged>>

\* --------------------------------------------------------- specification
Fetch == \/ \E e \in ErrClasses : WatchMetadataErr(e)
         \/ \E s \in Snapshots : WatchMetadataOK(s)

Dispatch == \E f \in ConfigFiles : SelectDefault(f)

Manager(d) == \/ \E df \in BOOLEAN : MgrCheck(d, df)
              \/ \E err \in BOOLEAN : MgrSetReturn(d, err)

Next ==
    \/ Cancel
    \/ RunReturn
    \/ Fetch
    \/ Backoff
    \/ SelectDone
    \/ Dispatch
    \/ \E d \in Domains : Manager(d)
    \/ WaitReturn

Spec == Init /\ [][Next]_vars

\* every call the loop and the managers block in returns, every goroutine
\* that can run is scheduled; nothing obliges anyone to cancel ctx
FairSpec ==
    /\ Spec
    /\ WF_vars(Fetch)
    /\ WF_vars(Backoff)
    /\ WF_vars(SelectDone)
    /\ WF_vars(Dispatch)
    /\ \A d \in Domains : WF_vars(Manager(d))
    /\ WF_vars(WaitReturn)
    /\ WF_vars(RunReturn)

TypeOK ==
    /\ pc \in {"fetch", "sleep", "select", "runUpdate", "stopped"}
    /\ runPc \in {"waiting", "returned"}
    /\ ctxDone \in BOOLEAN
    /\ oldMetadata \in Snapshots
    /\ newMetadata \in Snapshots
    /\ updNew \in Snapshots
    /\ webError \in 0..MaxFail
    /\ task \in [Domains -> {"none", "spawned", "set"}]
    /\ streak \in 0..MaxFail
    /\ cycle \in 0..1

\* ---------------------------------------------------------------- claims
SomeSetFailed == \E a \in Domains : mgr[a].setErr

\* C1: the watch loop is never in its terminated state unless ctx has been
\* cancelled, whatever the fetches and the managers' set() calls returned.
C1_NoStopBeforeCancel == pc = "stopped" => ctxDone

\* the loop has terminated after at least one dispatch
C1_Witness == pc = "stopped" /\ cycle >= 1

\* C2: in every cycle, a manager whose disabled() returned true has had
\* neither diff() nor set() called.
C2_DisabledSkipsDiffAndSet ==
    \A d \in Domains :
        (mgr[d].disabledCalls > 0 /\ mgr[d].disabledRet)
            => (mgr[d].diffCalls = 0 /\ mgr[d].setCalls = 0 /\ task[d] # "set")

\* a later cycle has joined with accounts disabled and skipped while another
\* manager ran its set()
C2_Witness ==
    /\ pc = "runUpdate" /\ Joined /\ cycle >= 1
    /\ mgr["accounts"].disabledCalls = 1 /\ mgr["accounts"].disabledRet
    /\ \E d \in Domains : mgr[d].setDone

\* C3: in every cycle, set() of a manager has been called only if in that
\* cycle its disabled() returned false and its diff() returned true.
C3_SetOnlyIfEnabledAndDiff ==
    \A d \in Domains :
        (mgr[d].setCalls > 0 \/ task[d] = "set")
            => /\ mgr[d].disabledCalls = 1 /\ ~mgr[d].disabledRet
               /\ mgr[d].diffCalls = 1 /\ mgr[d].diffRet

\* one enabled manager saw no difference and was skipped while another one
\* ran its set()
C3_Witness ==
    /\ pc = "runUpdate" /\ Joined
    /\ \E d \in Domains : /\ ~mgr[d].disabledRet /\ mgr[d].diffCalls = 1
                          /\ ~mgr[d].diffRet /\ mgr[d].setCalls = 0
    /\ \E d \in Domains : mgr[d].setCalls = 1 /\ mgr[d].setDone

\* every manager has run to its end: checked, and set if enabled and changed
AllManagersRan ==
    \A d \in Domains :
        /\ mgr[d].disabledCalls = 1
        /\ ~mgr[d].disabledRet => mgr[d].diffCalls = 1
        /\ (~mgr[d].disabledRet /\ mgr[d].diffRet)
               => (mgr[d].setCalls = 1 /\ mgr[d].setDone)
        /\ (d \in EqualityBased /\ ~disabled(d, cfg)
              /\ Slice(oldMetadata, d) # Slice(updNew, d))
               => mgr[d].setCalls = 1

\* C4: when a manager's set() has failed in a cycle, the cycle joins only
\* once every other enabled manager with a difference has had its set()
\* called; the dispatch then returns, the loop copies the current snapshot
\* over the previous one and goes back to fetching.
C4_Isolation ==
    /\ []((pc = "runUpdate" /\ Joined /\ SomeSetFailed) => AllManagersRan)
    /\ [][(pc = "runUpdate" /\ SomeSetFailed /\ pc' # "runUpdate")
             => (pc' = "fetch" /\ oldMetadata' = newMetadata)]_vars
    /\ ((pc = "runUpdate" /\ SomeSetFailed) ~> (pc = "fetch"))

\* a cycle has joined in which one set() failed and two others succeeded
C4_Witness ==
    /\ pc = "runUpdate" /\ Joined
    /\ \E a \in Domains :
          /\ mgr[a].setErr
          /\ \E b \in Domains \ {a} : \E c \in Domains \ {a, b} :
                /\ mgr[b].setDone /\ ~mgr[b].setErr
                /\ mgr[c].setDone /\ ~mgr[c].setErr

\* C5: the k-th failed fetch in a row logs its error exactly when k = 2, in
\* the first streak and in every streak after a successful fetch.
C5_LogOnSecondFailureOnly ==
    pc = "sleep" => (("raw" \in lastLog) <=> (streak = 2))

\* after a dispatch, a streak has logged its second failure and is now at
\* its third or later failure, which logged nothing
C5_Witness ==
    /\ pc = "sleep" /\ cycle >= 1
    /\ streak >= 3 /\ streakLogged /\ lastLog = {}

\* C6: a single failed fetch followed by a successful one (ctx not
\* cancelled) logs nothing, the fetched snapshot is handed to runUpdate, and
\* webError is zero at the fetch after it, so that a single failure logs
\* nothing again.
C6_SingleFailureSilent ==
    /\ []((pc \in {"select", "runUpdate"} /\ ended = 1) => ~endedLogged)
    /\ [][(pc = "select" /\ ended = 1 /\ ~ctxDone /\ pc' # "select")
             => (pc' = "runUpdate" /\ updNew' = newMetadata
                   /\ \A d \in Domains : task'[d] = "spawned")]_vars
    /\ []((pc = "fetch" /\ streak = 0) => webError = 0)
    /\ []((pc = "sleep" /\ streak = 1) => lastLog = {})

\* a populated snapshot fetched right after a single failure is in dispatch
C6_Witness ==
    /\ pc = "runUpdate" /\ ended = 1 /\ ~endedLogged
    /\ Populated(updNew) /\ updNew = newMetadata

\* C7: the first dispatch gets the zero snapshot as previous; with a
\* populated current snapshot every enabled manager comparing the two
\* snapshots reports a difference and has set() called exactly once.
C7_FirstCycleAppliesAll ==
    (pc = "runUpdate" /\ cycle = 0) =>
        /\ oldMetadata = 0
        /\ \A d \in EqualityBased :
              /\ mgr[d].setCalls <= 1
              /\ (Populated(updNew) /\ mgr[d].disabledCalls = 1
                    /\ ~mgr[d].disabledRet)
                   => (mgr[d].diffRet /\ mgr[d].setCalls = 1)
              /\ (Populated(updNew) /\ Joined /\ ~disabled(d, cfg))
                   => (mgr[d].setCalls = 1 /\ mgr[d].setDone)

\* the first cycle has joined with all managers enabled and all sets done
C7_Witness ==
    /\ pc = "runUpdate" /\ cycle = 0 /\ Joined /\ Populated(updNew)
    /\ cfg.disabled = {}
    /\ \A d \in EqualityBased : mgr[d].setCalls = 1 /\ mgr[d].setDone

\* C8: when a dispatch gets the same snapshot as the dispatch before it,
\* previous equals current, no manager comparing the two snapshots reports
\* a difference and none of them has set() called.
C8_SameSnapshotNoSet ==
    (pc = "runUpdate" /\ cycle >= 1 /\ updNew = prevNew) =>
        /\ oldMetadata = updNew
        /\ \A d \in EqualityBased :
              ~mgr[d].diffRet /\ mgr[d].setCalls = 0 /\ task[d] # "set"

\* the second dispatch of a populated snapshot has joined, every comparing
\* manager enabled and having called diff()
C8_Witness ==
    /\ pc = "runUpdate" /\ cycle >= 1 /\ Joined
    /\ updNew = prevNew /\ Populated(updNew)
    /\ \A d \in EqualityBased : mgr[d].diffCalls = 1 /\ mgr[d].setCalls = 0

\* C9: manager goroutines run only while the loop is inside runUpdate; the
\* loop is never fetching, backing off or selecting while one is running.
C9_CyclesSequential ==
    pc # "runUpdate" => \A d \in Domains : task[d] = "none"

\* the loop is fetching again after a cycle in which set() calls were made
C9_Witness ==
    /\ pc = "fetch" /\ cycle >= 1 /\ prevNew # 0
    /\ \A d \in Domains : task[d] = "none"

\* C10: once ctx is cancelled the watch loop eventually terminates, whatever
\* the fetches in flight or issued afterwards return.
C10_EventualStop == ctxDone ~> (pc = "stopped")

\* C11: run() has returned only if the watch loop has observed the
\* cancellation and terminated; it never returns while the loop is still
\* fetching, backing off or dispatching.
C11_RunReturnsAfterLoop == runPc = "returned" => pc = "stopped"

\* C12: a manager (of those holding both snapshots) whose set() failed in
\* the preceding cycle and that is still enabled reports a difference and has
\* set() called again when it runs in this cycle, even when this cycle's
\* snapshot is the one of the preceding cycle.
C12_FailedSetRetried ==
    [][\A d \in prevFailed \cap EqualityBased :
          (/\ pc = "runUpdate" /\ cycle >= 1 /\ updNew = prevNew
           /\ ~disabled(d, cfg)
           /\ task[d] = "spawned" /\ task'[d] # "spawned")
             => (task'[d] = "set" /\ mgr'[d].diffRet
                   /\ mgr'[d].setCalls = 1)]_vars

NoTaskRunning == \A d \in Domains : task[d] = "none"

\* C13: the previous snapshot is replaced only by the step in which the loop
\* leaves a runUpdate whose manager goroutines have all ended, and every such
\* step replaces it by the dispatched snapshot, whether or not a set() of the
\* cycle failed.
C13_AdvanceAfterDispatch ==
    [][/\ (oldMetadata' # oldMetadata)
            => (pc = "runUpdate" /\ pc' = "fetch" /\ NoTaskRunning)
       /\ (pc = "runUpdate" /\ pc' # "runUpdate")
            => (oldMetadata' = updNew /\ prevNew' = updNew)]_vars

\* the loop has advanced to a populated snapshot after a cycle in which a
\* set() failed
C13_Witness ==
    /\ pc = "fetch" /\ cycle >= 1 /\ prevFailed # {}
    /\ oldMetadata = prevNew /\ Populated(oldMetadata)

\* C14: a failed fetch of any error class, at any value of webError, makes
\* no dispatch, leaves the previous snapshot alone and sends the loop into
\* its backoff; the loop leaves the backoff only for the next fetch.
C14_FailureOnlyBacksOff ==
    /\ [][(pc = "fetch" /\ lastErr' # "none")
             => /\ pc' = "sleep"
                /\ oldMetadata' = oldMetadata
                /\ NoTaskRunning /\ UNCHANGED <<updNew, cfg, task, mgr>>
                /\ UNCHANGED <<prevNew, cycle>>]_vars
    /\ [][pc = "sleep" => pc' \in {"sleep", "fetch"}]_vars
    /\ [][(pc' = "fetch" /\ lastErr # "none") => pc = "sleep"]_vars
    /\ [](pc = "sleep" => (lastErr \in ErrClasses /\ NoTaskRunning))

\* after a dispatch the loop backs off from its third or later failure in a
\* row, of the unclassified kind, with the previous snapshot still in place
C14_Witness ==
    /\ pc = "sleep" /\ lastErr = "other" /\ streak >= 3 /\ ~ctxDone
    /\ cycle >= 1 /\ oldMetadata = prevNew /\ Populated(oldMetadata)

\* C15: when ctx is cancelled by the time the loop reaches its select after
\* a successful fetch, the loop stops there: runUpdate is not called, no
\* manager is built or run for the fetched snapshot and the previous
\* snapshot stays as it was.
C15_CancelSkipsDispatch ==
    /\ [][(pc = "select" /\ ctxDone /\ pc' # pc)
             => /\ pc' = "stopped"
                /\ UNCHANGED <<oldMetadata, updNew, cfg, task, mgr>>
                /\ UNCHANGED <<prevNew, cycle>>]_vars
    /\ [](pc = "stopped"
             => /\ NoTaskRunning
                /\ \A d \in Domains : mgr[d] = FreshMgr
                /\ oldMetadata = prevNew)

\* the loop has stopped holding a fetched populated snapshot that differs
\* from the previous one and was never dispatched
C15_Witness ==
    /\ pc = "stopped" /\ cycle >= 1
    /\ Populated(newMetadata) /\ newMetadata # oldMetadata

\* manager d was skipped this cycle: disabled, or enabled without difference
Skipped(d) ==
    /\ mgr[d].disabledCalls = 1 /\ mgr[d].setCalls = 0
    /\ \/ mgr[d].disabledRet
       \/ (mgr[d].diffCalls = 1 /\ ~mgr[d].diffRet)

\* set() of manager d was called this cycle and has returned
SetReturned(d) == mgr[d].setCalls = 1 /\ mgr[d].setDone

\* C16: the loop leaves runUpdate only when each of the four manager
\* goroutines of the cycle has ended, its manager either skipped or with its
\* set() returned, with or without an error.
C16_JoinBarrier ==
    [][(pc = "runUpdate" /\ pc' # "runUpdate")
          => \A d \in Domains :
                /\ task[d] = "none"
                /\ Skipped(d) \/ SetReturned(d)]_vars

\* a cycle is at its join with one manager disabled, one without difference,
\* one with set() succeeded and one with set() failed
C16_Witness ==
    /\ pc = "runUpdate" /\ Joined
    /\ \E d1, d2, d3, d4 \in Domains :
          /\ mgr[d1].disabledCalls = 1 /\ mgr[d1].disabledRet
          /\ ~mgr[d2].disabledRet /\ mgr[d2].diffCalls = 1 /\ ~mgr[d2].diffRet
          /\ SetReturned(d3) /\ ~mgr[d3].setErr
          /\ SetReturned(d4) /\ mgr[d4].setErr

\* C17: in runUpdate a missing config file logs nothing and gives the empty
\* config, a file that cannot be read or parsed logs the error and gives the
\* empty config, and either way all four managers are spawned and none of
\* them is disabled by the config.
C17_ConfigFallback ==
    /\ [](pc = "runUpdate" =>
            /\ cfg.file = "notexist" => (~cfg.logged /\ cfg.disabled = {})
            /\ cfg.file = "unreadable"
                 => (cfg.logged /\ cfg.disabled = {})
            /\ cfg.file = "ok" => ~cfg.logged
            /\ cfg.file # "ok" =>
                 \A d \in Domains :
                    \/ task[d] = "spawned"
                    \/ (mgr[d].disabledCalls = 1 /\ ~mgr[d].disabledRet
                          /\ mgr[d].diffCalls = 1))
    /\ [][(pc = "select" /\ pc' = "runUpdate")
             => (cfg'.file # "none" /\ \A d \in Domains : task'[d] = "spawned")]_vars

\* a cycle run with an unreadable config file has joined with a set() done,
\* after a cycle before it
C17_Witness ==
    /\ pc = "runUpdate" /\ Joined /\ cycle >= 1
    /\ cfg.file = "unreadable" /\ cfg.logged
    /\ \E d \in Domains : SetReturned(d)

\* C18: a failed fetch logs the DNS hint exactly when it is the second
\* failure in a row and of the DNS class, the network hint exactly when it
\* is the second in a row and of the network class, each together with the
\* raw error; a second failure of any other class logs the raw error alone,
\* and a failure that is not the second in a row logs nothing.
C18_HintsOnlyWhenLogged ==
    pc = "sleep" =>
        /\ ("dns_hint" \in lastLog) <=> (streak = 2 /\ lastErr = "dns")
        /\ ("net_hint" \in lastLog) <=> (streak = 2 /\ lastErr = "net")
        /\ (lastLog # {}) => ("raw" \in lastLog)
        /\ (streak = 2 /\ lastErr = "other") => (lastLog = {"raw"})
        /\ (streak # 2) => (lastLog = {})

\* after a dispatch, the second failure in a row is a DNS failure and has
\* logged the hint and the raw error
C18_Witness ==
    /\ pc = "sleep" /\ cycle >= 1 /\ streak = 2
    /\ lastErr = "dns" /\ lastLog = {"dns_hint", "raw"}

\* C19: while any manager goroutine is running, the snapshots it refers to
\* are not written: the loop assigns oldMetadata (and lets go of the
\* dispatched snapshot) only in a step taken with no manager goroutine
\* running.
C19_NoWriteWhileManagersRun ==
    [][/\ (~NoTaskRunning)
            => (oldMetadata' = oldMetadata /\ updNew' = updNew)
       /\ (oldMetadata' # oldMetadata \/ (pc = "runUpdate" /\ pc' = "fetch"))
            => (NoTaskRunning /\ \A d \in Domains : task'[d] = "none")]_vars

\* in a cycle after an overwrite of the previous snapshot, a manager that
\* has compared the two differing snapshots is inside set() while another
\* has not read them yet
C19_Witness ==
    /\ pc = "runUpdate" /\ cycle >= 1
    /\ oldMetadata = prevNew /\ oldMetadata # 0 /\ oldMetadata # updNew
    /\ \E d \in EqualityBased : task[d] = "set" /\ mgr[d].diffRet
    /\ \E d \in EqualityBased : task[d] = "spawned"

\* C20: at every dispatch the previous snapshot is the current snapshot of
\* the dispatch before it (the empty one at the first), however many fetches
\* failed in between; and every snapshot fetched is, unless the select sees
\* the cancellation, handed to exactly one dispatch before the next fetch.
C20_SnapshotChain ==
    /\ [](pc = "runUpdate" => (oldMetadata = prevNew /\ updNew = newMetadata))
    /\ [](cycle = 0 => prevNew = 0)
    /\ [][(pc = "fetch" \/ pc = "sleep")
             => (oldMetadata' = oldMetadata /\ prevNew' = prevNew
                   /\ cycle' = cycle)]_vars
    /\ [][(pc = "select" /\ ~ctxDone /\ pc' # pc)
             => (pc' = "runUpdate" /\ updNew' = newMetadata
                   /\ cycle' = cycle)]_vars
    /\ [][(pc = "runUpdate" /\ pc' # pc)
             => (pc' = "fetch" /\ prevNew' = updNew /\ cycle' = 1)]_vars
    /\ [][(newMetadata' # newMetadata)
             => (pc = "fetch" \/ (pc = "runUpdate" /\ pc' = "fetch"))]_vars

\* a later dispatch, reached through a streak of failed fetches, has the
\* preceding dispatch's populated snapshot as previous and a different one
\* as current
C20_Witness ==
    /\ pc = "runUpdate" /\ cycle >= 1 /\ ended >= 2
    /\ oldMetadata = prevNew /\ Populated(oldMetadata)
    /\ updNew # oldMetadata /\ Populated(updNew)
====
